---- MODULE Spec2Model ----
(***************************************************************************)
(* DB_Genie: query routing, context assembly, SQL adapter, the raw-SQL    *)
(* endpoint, the session store and the chat and streaming handlers,        *)
(* modelled from src/DB_Genie/app; AI_Presenter: the session files and the *)
(* handlers that read and write them, modelled from src/AI_Presenter.      *)
(*                                                                         *)
(* Text is modelled by TLA+ strings; TLC evaluates Len, \o, SubSeq, Head   *)
(* and Tail on them, so substring tests, case conversion and trimming are  *)
(* computed character by character as the Python code computes them.       *)
(* Confidences are hundredths (0.85 is 85).                                *)
(***************************************************************************)
EXTENDS Integers, Sequences, FiniteSets, TLC

VARIABLES
    rq_query,          \* route_query: the query argument
    rq_has_database,   \* route_query: the has_database argument
    rq_result          \* route_query: the returned dict, None before the call

VARIABLES
    raw_sql_agent,     \* POST /query/sql: app.state.sql_agent_service is set
    raw_query,         \* POST /query/sql: query.get("query"), None if missing
    raw_response,      \* POST /query/sql: the response, None before the call
    raw_executed,      \* statements execute_raw_query was called with
    raw_db_log,        \* statements the database session executed
    raw_db             \* the condition of the database during the call, None before

VARIABLES
    app_vector_store,  \* VectorStoreService.vector_store is set (documents ingested)
    app_database,      \* app.state.database_service is set
    app_sql_agent,     \* app.state.sql_agent_service is set
    sessions,          \* SessionManager.sessions: session id -> history
    chat_request,      \* POST /chat: the ChatRequest, None when there is none
    chat_prep,         \* POST /chat: what prepare_messages_async did, None before
    chat_completion,   \* POST /chat: what the final get_completion did, None if not called
    chat_response      \* POST /chat: the response, None before

VARIABLES
    requests,          \* concurrent requests: request id -> its state
    event_loop         \* the request whose handler runs on the event loop, None if idle

VARIABLES
    cc_call,           \* _transform_concat_to_sqlite: how the statement was written
    cc_result          \* _transform_concat_to_sqlite: the returned text, None before

VARIABLES
    session_files,     \* AI_Presenter: SESSION_DIR, session id -> the JSON it holds
    presentation_dirs, \* AI_Presenter: session ids with a presentations/ directory
    presenter_requests \* AI_Presenter: request id -> its state

routerVars == <<rq_query, rq_has_database, rq_result>>
rawVars == <<raw_sql_agent, raw_query, raw_response, raw_executed, raw_db_log, raw_db>>

appVars == <<app_vector_store, app_database, app_sql_agent>>
chatVars == <<sessions, chat_request, chat_prep, chat_completion, chat_response>>

requestVars == <<requests, event_loop>>
concatVars == <<cc_call, cc_result>>
presenterVars == <<session_files, presentation_dirs, presenter_requests>>

vars ==
    <<routerVars, rawVars, appVars, chatVars, requestVars, concatVars, presenterVars>>

\* Optional values: None is the empty sequence, a present value x is <<x>>
None == <<>>
Some(x) == <<x>>

-----------------------------------------------------------------------------
(* Python str operations                                                   *)

UpperAlphabet == "ABCDEFGHIJKLMNOPQRSTUVWXYZ"
LowerAlphabet == "abcdefghijklmnopqrstuvwxyz"

CharAt(s, i) == SubSeq(s, i, i)

\* str.lower() on one ASCII character
LowerChar(c) ==
    IF \E i \in 1..Len(UpperAlphabet) : CharAt(UpperAlphabet, i) = c
    THEN CharAt(LowerAlphabet, CHOOSE i \in 1..Len(UpperAlphabet) : CharAt(UpperAlphabet, i) = c)
    ELSE c

\* str.upper() on one ASCII character
UpperChar(c) ==
    IF \E i \in 1..Len(LowerAlphabet) : CharAt(LowerAlphabet, i) = c
    THEN CharAt(UpperAlphabet, CHOOSE i \in 1..Len(LowerAlphabet) : CharAt(LowerAlphabet, i) = c)
    ELSE c

RECURSIVE lower(_)
lower(s) == IF s = "" THEN "" ELSE LowerChar(Head(s)) \o lower(Tail(s))

RECURSIVE upper(_)
upper(s) == IF s = "" THEN "" ELSE UpperChar(Head(s)) \o upper(Tail(s))

\* Python's `sub in s`
Contains(sub, s) ==
    \E i \in 1..(Len(s) - Len(sub) + 1) : SubSeq(s, i, i + Len(sub) - 1) = sub

\* Python's s.startswith(prefix)
StartsWith(s, prefix) ==
    Len(s) >= Len(prefix) /\ SubSeq(s, 1, Len(prefix)) = prefix

\* the characters str.strip() removes and the regex class \s matches
Whitespace == {" ", "\t", "\n", "\r", "\f"}

RECURSIVE lstrip(_)
lstrip(s) == IF s # "" /\ Head(s) \in Whitespace THEN lstrip(Tail(s)) ELSE s

RECURSIVE rstrip(_)
rstrip(s) ==
    IF s # "" /\ CharAt(s, Len(s)) \in Whitespace
    THEN rstrip(SubSeq(s, 1, Len(s) - 1))
    ELSE s

\* str.strip()
strip(s) == rstrip(lstrip(s))

\* str.replace(old, new), left to right over non-overlapping occurrences
RECURSIVE replace(_, _, _)
replace(s, old, new) ==
    IF s = "" THEN ""
    ELSE IF StartsWith(s, old)
    THEN new \o replace(SubSeq(s, Len(old) + 1, Len(s)), old, new)
    ELSE Head(s) \o replace(Tail(s), old, new)

\* sep.join(parts)
RECURSIVE join(_, _)
join(sep, parts) ==
    IF Len(parts) = 0 THEN ""
    ELSE IF Len(parts) = 1 THEN parts[1]
    ELSE parts[1] \o sep \o join(sep, Tail(parts))

\* the backtick (a TLA+ string literal cannot hold one on its own)
Backtick == Head("`'")

\* str(x) of an optional text
str(opt) == IF opt = None THEN "None" ELSE opt[1]

\* the outcome of a call: it returns a value or raises an exception
Return(v) == [raised |-> FALSE, value |-> v]
Raise(kind, msg) == [raised |-> TRUE, kind |-> kind, error |-> msg]

-----------------------------------------------------------------------------
(* QueryRouterService                                                      *)

VECTOR_SEARCH == "vector_search"
SQL_QUERY == "sql_query"
VISUALIZATION == "visualization"
HYBRID == "hybrid"

sql_keywords ==
    << "how many", "count", "total", "average", "sum", "maximum", "minimum",
       "list all", "show all", "find all", "get all", "employees", "leaves",
       "departments", "records", "calculate", "statistics", "report",
       "aggregate" >>

viz_keywords ==
    << "show graph", "show chart", "plot", "visualize", "graph", "chart",
       "draw", "display chart", "trends", "comparison", "distribution",
       "breakdown", "show me a" >>

policy_keywords ==
    << "policy", "policies", "document", "guideline", "procedure", "rule",
       "regulation", "handbook", "manual", "what is the policy",
       "according to", "policy states", "policy says" >>

\* faulty variant: the query is matched as typed, .lower() forgotten
query_lower_no_lowercasing(query) == query

\* query_lower = query.lower()

query_lower(query) == lower(query)

\* faulty variant: all() written for any()
all_keywords_in(keywords, ql) ==
    \A k \in 1..Len(keywords) : Contains(keywords[k], ql)

\* any(keyword in query_lower for keyword in keywords)
any_keyword_in(keywords, ql) ==
    \E k \in 1..Len(keywords) : Contains(keywords[k], ql)

RoutingInfo(qt, viz, conf, why) ==
    [query_type |-> qt, needs_visualization |-> viz, confidence |-> conf,
     reasoning |-> why]

\* the if/elif chain of route_query over the three keyword tests
route_decision(needs_viz, is_sql_query, is_policy_query, has_database) ==
    IF is_policy_query /\ is_sql_query
    THEN RoutingInfo(HYBRID, needs_viz, 70,
                     "Query mentions both policies and structured data")
    ELSE IF is_policy_query /\ ~has_database
    THEN RoutingInfo(VECTOR_SEARCH, needs_viz, 90,
                     "Query about policies/documents")
    ELSE IF is_sql_query /\ has_database
    THEN RoutingInfo(SQL_QUERY, needs_viz, 85,
                     "Query requires structured data from database")
    ELSE IF needs_viz
    THEN IF has_database
         THEN RoutingInfo(VISUALIZATION, needs_viz, 90,
                          "Query explicitly requests visualization")
         ELSE RoutingInfo(VECTOR_SEARCH, needs_viz, 60,
                          "Visualization requested but no database available")
    ELSE IF has_database
    THEN RoutingInfo(SQL_QUERY, needs_viz, 50,
                     "General query routed to database")
    ELSE RoutingInfo(VECTOR_SEARCH, needs_viz, 80,
                     "No database available, using document search")

\* faulty variant: has_database is not passed on and keeps its default True
route_query_default_has_database(query, has_database) ==
    route_decision(any_keyword_in(viz_keywords, query_lower(query)),
                   any_keyword_in(sql_keywords, query_lower(query)),
                   any_keyword_in(policy_keywords, query_lower(query)),
                   TRUE)

\* faulty variant: the visualization test reads the SQL keyword list
route_query_viz_reads_sql_keywords(query, has_database) ==
    route_decision(any_keyword_in(sql_keywords, query_lower(query)),
                   any_keyword_in(sql_keywords, query_lower(query)),
                   any_keyword_in(policy_keywords, query_lower(query)),
                   has_database)

route_query(query, has_database) ==
    route_decision(any_keyword_in(viz_keywords, query_lower(query)),
                   any_keyword_in(sql_keywords, query_lower(query)),
                   any_keyword_in(policy_keywords, query_lower(query)),
                   has_database)

-----------------------------------------------------------------------------
(* Inputs of the router specification                                      *)

MaxWords == 2

\* words a query is built from: keywords of each list in several letter
\* cases, words that only embed a keyword, and words that match nothing
Words ==
    { "plot", "Chart", "trends", "employees", "COUNT", "account",
      "policy", "Handbook", "salary", "the" }

ScenarioQueries ==
    { "How many employees are in Engineering?",
      "plot a bar chart of salaries by department",
      "What is the leave policy?",
      "show chart of average salary" }

Queries ==
    { join(" ", ws) : ws \in UNION { [1..n -> Words] : n \in 0..MaxWords } }
        \cup ScenarioQueries

-----------------------------------------------------------------------------
(* Specification of route_query as a pure function                         *)

\* the variables of an operation that a specification does not exercise
RouterIdle == rq_query = "" /\ rq_has_database = FALSE /\ rq_result = None

RawIdle ==
    /\ raw_sql_agent = FALSE /\ raw_query = None /\ raw_response = None
    /\ raw_executed = <<>> /\ raw_db_log = <<>> /\ raw_db = None

\* an empty dict
EmptyDict == [k \in {} |-> <<>>]

ChatIdle ==
    /\ app_vector_store = FALSE /\ app_database = FALSE /\ app_sql_agent = FALSE
    /\ sessions = EmptyDict
    /\ chat_request = None /\ chat_prep = None
    /\ chat_completion = None /\ chat_response = None

RequestsIdle == requests = EmptyDict /\ event_loop = None

ConcatIdle == cc_call = None /\ cc_result = None

PresenterIdle ==
    /\ session_files = EmptyDict /\ presentation_dirs = {}
    /\ presenter_requests = EmptyDict

RouterInit ==
    /\ rq_query \in Queries
    /\ rq_has_database \in BOOLEAN
    /\ rq_result = None
    /\ RawIdle /\ ChatIdle /\ RequestsIdle /\ ConcatIdle /\ PresenterIdle

RouteQuery ==
    /\ rq_result = None
    /\ rq_result' = Some(route_query(rq_query, rq_has_database))
    /\ UNCHANGED <<rq_query, rq_has_database, rawVars,
                   appVars, chatVars, requestVars, concatVars, presenterVars>>

RouterNext == RouteQuery

SpecRouter == RouterInit /\ [][RouterNext]_vars

-----------------------------------------------------------------------------
(* Properties of route_query                                               *)

\* a keyword occurs in the query as a substring, letter case ignored
\* (stated over upper-cased text, independently of route_query's lowering)
Mentions(keywords, query) ==
    \E k \in 1..Len(keywords) : Contains(upper(keywords[k]), upper(query))

MentionsViz == Mentions(viz_keywords, rq_query)
MentionsSql == Mentions(sql_keywords, rq_query)
MentionsPolicy == Mentions(policy_keywords, rq_query)

Returned == rq_result # None
Routed(qt, conf) ==
    rq_result[1].query_type = qt /\ rq_result[1].confidence = conf

\* C1 (as claimed): every query with a visualization keyword and
\* has_database=true is routed to Visualization with confidence 0.95,
\* whatever policy or SQL keywords it also contains.
C1_VisualizationFirst ==
    (Returned /\ rq_has_database /\ MentionsViz) => Routed(VISUALIZATION, 95)

\* C1 (amended): every query with a visualization keyword and no SQL keyword,
\* with has_database=true, is routed to Visualization with confidence 0.9,
\* whatever policy keywords it also contains.
C1_VisualizationWithoutSqlKeyword ==
    (Returned /\ rq_has_database /\ MentionsViz /\ ~MentionsSql)
        => Routed(VISUALIZATION, 90) /\ rq_result[1].needs_visualization

C1_Witness ==
    /\ Returned /\ rq_has_database
    /\ MentionsViz /\ MentionsPolicy /\ ~MentionsSql
    /\ Routed(VISUALIZATION, 90)

\* C2: every query with a policy keyword and an SQL keyword, in any order and
\* letter case, is routed to Hybrid with confidence 0.7.
C2_HybridWhenPolicyAndSql ==
    (Returned /\ MentionsPolicy /\ MentionsSql) => Routed(HYBRID, 70)

C2_Witness ==
    /\ Returned /\ rq_query = "COUNT Handbook" /\ Routed(HYBRID, 70)
    /\ MentionsPolicy /\ MentionsSql

\* C3 (as claimed): every query with a policy keyword and neither an SQL nor a
\* visualization keyword is routed to DocumentSearch with confidence 0.9, for
\* has_database=true and has_database=false alike.
C3_PolicyToDocumentSearch ==
    (Returned /\ MentionsPolicy /\ ~MentionsSql /\ ~MentionsViz)
        => Routed(VECTOR_SEARCH, 90)

\* C4: every query with an SQL keyword and neither a policy nor a
\* visualization keyword, with has_database=true, is routed to DatabaseQuery
\* with confidence 0.85.
C4_SqlToDatabaseQuery ==
    (Returned /\ rq_has_database /\ MentionsSql /\ ~MentionsPolicy /\ ~MentionsViz)
        => Routed(SQL_QUERY, 85)

C4_Witness ==
    /\ Returned /\ rq_has_database
    /\ rq_query = "How many employees are in Engineering?"
    /\ MentionsSql /\ ~MentionsPolicy /\ ~MentionsViz
    /\ Routed(SQL_QUERY, 85)

\* none of the specification's rules 1-4 applies to the call
NoRuleApplies ==
    /\ ~(MentionsViz /\ rq_has_database)
    /\ ~(MentionsPolicy /\ MentionsSql)
    /\ ~MentionsPolicy
    /\ ~(MentionsSql /\ rq_has_database)

\* C5 (as claimed): when none of rules 1-4 applies the result is DatabaseQuery
\* with confidence 0.5 if has_database, else DocumentSearch with confidence 0.8.
C5_Defaults ==
    (Returned /\ NoRuleApplies)
        => IF rq_has_database THEN Routed(SQL_QUERY, 50)
                              ELSE Routed(VECTOR_SEARCH, 80)

\* C5 (amended): when none of rules 1-4 applies the result is DatabaseQuery
\* with confidence 0.5 if has_database; else it is DocumentSearch, with
\* confidence 0.6 if the query has a visualization keyword and 0.8 if not.
C5_DefaultsVizWithoutDatabase ==
    (Returned /\ NoRuleApplies)
        => IF rq_has_database THEN Routed(SQL_QUERY, 50)
           ELSE IF MentionsViz THEN Routed(VECTOR_SEARCH, 60)
           ELSE Routed(VECTOR_SEARCH, 80)

C5_Witness ==
    /\ Returned /\ NoRuleApplies /\ ~rq_has_database
    /\ MentionsViz /\ MentionsSql
    /\ Routed(VECTOR_SEARCH, 60)

-----------------------------------------------------------------------------
(* DatabaseService                                                         *)

\* _split_args: the loop over the characters of argstr, from index i on
RECURSIVE split_args_loop(_, _, _, _, _, _, _)
split_args_loop(argstr, i, args, cur, in_single, in_double, depth) ==
    IF i > Len(argstr)
    THEN IF cur # "" THEN Append(args, strip(cur)) ELSE args
    ELSE LET ch == CharAt(argstr, i) IN
         IF ch = "'" /\ ~in_double
         THEN split_args_loop(argstr, i + 1, args, cur \o ch,
                              ~in_single, in_double, depth)
         ELSE IF ch = "\"" /\ ~in_single
         THEN split_args_loop(argstr, i + 1, args, cur \o ch,
                              in_single, ~in_double, depth)
         ELSE LET d == IF ch = "(" /\ ~in_single /\ ~in_double THEN depth + 1
                       ELSE IF ch = ")" /\ ~in_single /\ ~in_double THEN depth - 1
                       ELSE depth
              IN IF ch = "," /\ d = 0 /\ ~in_single /\ ~in_double
                 THEN split_args_loop(argstr, i + 1, Append(args, strip(cur)), "",
                                      in_single, in_double, d)
                 ELSE split_args_loop(argstr, i + 1, args, cur \o ch,
                                      in_single, in_double, d)

\* faulty variant: every comma splits, also one inside a quoted literal
RECURSIVE split_args_splits_in_quotes(_)
split_args_splits_in_quotes(argstr) ==
    LET commas == { i \in 1..Len(argstr) : CharAt(argstr, i) = "," } IN
    IF commas = {} THEN (IF argstr # "" THEN <<strip(argstr)>> ELSE <<>>)
    ELSE LET i == CHOOSE k \in commas : \A m \in commas : k <= m
         IN  <<strip(SubSeq(argstr, 1, i - 1))>>
                 \o split_args_splits_in_quotes(SubSeq(argstr, i + 1, Len(argstr)))

split_args(argstr) == split_args_loop(argstr, 1, <<>>, "", FALSE, FALSE, 0)

\* a match of the pattern CONCAT\s*\((.*?)\) (IGNORECASE, DOTALL) at the
\* start of s: the lazy group ends at the first ")" after the "("
concat_match(s) ==
    LET n == Len(s)
        rest == SubSeq(s, 7, n)
        open == 7 + (Len(rest) - Len(lstrip(rest)))
        closing == { j \in (open + 1)..n : CharAt(s, j) = ")" }
    IN  IF /\ n >= 8
           /\ upper(SubSeq(s, 1, 6)) = "CONCAT"
           /\ CharAt(s, open) = "("
           /\ closing # {}
        THEN LET j == CHOOSE k \in closing : \A m \in closing : k <= m
             IN [matched |-> TRUE, inner |-> SubSeq(s, open + 1, j - 1), end |-> j]
        ELSE [matched |-> FALSE, inner |-> "", end |-> 0]

\* _repl
concat_repl(inner) == "(" \o join(" || ", split_args(inner)) \o ")"

\* pattern.sub(_repl, query)
RECURSIVE transform_concat_to_sqlite(_)
transform_concat_to_sqlite(query) ==
    IF query = "" THEN ""
    ELSE LET m == concat_match(query) IN
         IF m.matched
         THEN concat_repl(m.inner)
                  \o transform_concat_to_sqlite(SubSeq(query, m.end + 1, Len(query)))
         ELSE Head(query) \o transform_concat_to_sqlite(Tail(query))

\* The database behind session.execute. An engine without a CONCAT function
\* (SQLite) rejects a statement that calls it; concat_function is TRUE for an
\* engine that has one. fault is what else is wrong, rows what a query finds.
SampleRows == << [name |-> "Ada", salary |-> 10], [name |-> "Bob", salary |-> 20] >>

SyntaxError == "(sqlite3.OperationalError) near \"sql\": syntax error"
NoSuchTable == "(sqlite3.OperationalError) no such table: staff"
NoSuchFunctionConcat == "(sqlite3.OperationalError) no such function: CONCAT"
DatabaseLocked == "(sqlite3.OperationalError) database is locked"
ConstraintFailed == "(sqlite3.IntegrityError) NOT NULL constraint failed"

DbConditions ==
    { d \in [concat_function : BOOLEAN,
             fault : {"none", "no such table", "database is locked", "constraint"},
             rows : {<<>>, SampleRows}] :
        d.fault # "none" => d.rows = <<>> }

IdentifierChars ==
    { CharAt(UpperAlphabet \o LowerAlphabet \o "0123456789_", i) : i \in 1..63 }

StatementVerbs == << "SELECT", "WITH", "DELETE", "DROP", "UPDATE", "INSERT" >>

\* where the statement calls a function named CONCAT, in any letter case
concat_calls(statement) ==
    { i \in 1..(Len(statement) - 6) :
        /\ upper(SubSeq(statement, i, i + 5)) = "CONCAT"
        /\ i = 1 \/ CharAt(statement, i - 1) \notin IdentifierChars
        /\ StartsWith(lstrip(SubSeq(statement, i + 6, Len(statement))), "(") }

\* the statement calls a function named CONCAT
calls_concat(statement) == concat_calls(statement) # {}

\* the engine names the unknown function as the statement spells it
no_such_function(statement) ==
    LET i == CHOOSE k \in concat_calls(statement) :
                 \A m \in concat_calls(statement) : k <= m
    IN  "(sqlite3.OperationalError) no such function: " \o SubSeq(statement, i, i + 5)

\* session.execute(text(statement)): the statement is parsed, its tables and
\* then its functions are resolved, and then it runs
session_execute(statement, db) ==
    LET parsed(head) ==
            IF ~\E k \in 1..Len(StatementVerbs) : StartsWith(head, StatementVerbs[k])
            THEN Raise("OperationalError", SyntaxError)
            ELSE IF db.fault = "no such table"
            THEN Raise("OperationalError", NoSuchTable)
            ELSE IF ~db.concat_function /\ calls_concat(statement)
            THEN Raise("OperationalError", no_such_function(statement))
            ELSE IF db.fault = "database is locked"
            THEN Raise("OperationalError", DatabaseLocked)
            ELSE IF db.fault = "constraint"
            THEN Raise("IntegrityError", ConstraintFailed)
            ELSE Return([returns_rows |->
                             StartsWith(head, "SELECT") \/ StartsWith(head, "WITH"),
                         rows |-> db.rows])
    IN  parsed(upper(lstrip(statement)))

\* [dict(zip(columns, row)) for row in result.fetchall()] or []
fetched(result) == IF result.returns_rows THEN result.rows ELSE <<>>

\* faulty variant: the rewritten statement is tried a second time when it fails
execute_query_retries_twice(query, db) ==
    LET retried(transformed, second) ==
            [outcome |-> IF second.raised THEN session_execute(transformed, db)
                         ELSE Return(fetched(second.value)),
             executed |-> IF second.raised
                          THEN <<query, transformed, transformed>>
                          ELSE <<query, transformed>>]
        retry(transformed) ==
            retried(transformed, session_execute(transformed, db))
        attempted(first) ==
            IF ~first.raised
            THEN [outcome |-> Return(fetched(first.value)), executed |-> <<query>>]
            ELSE IF /\ first.kind = "OperationalError"
                    /\ \/ Contains("no such function: CONCAT", first.error)
                       \/ Contains("CONCAT(", upper(query))
            THEN retry(transform_concat_to_sqlite(query))
            ELSE [outcome |-> first, executed |-> <<query>>]
    IN  attempted(session_execute(query, db))

\* execute_query(query) on a database in condition db (the same for both
\* attempts): the outcome and the statements the session executed
execute_query(query, db) ==
    LET retried(transformed, second) ==
            [outcome |-> IF second.raised THEN second
                         ELSE Return(fetched(second.value)),
             executed |-> <<query, transformed>>]
        retry(transformed) ==
            retried(transformed, session_execute(transformed, db))
        attempted(first) ==
            IF ~first.raised
            THEN [outcome |-> Return(fetched(first.value)), executed |-> <<query>>]
            ELSE IF /\ first.kind = "OperationalError"
                    /\ \/ Contains("no such function: CONCAT", first.error)
                       \/ Contains("CONCAT(", upper(query))
            THEN retry(transform_concat_to_sqlite(query))
            ELSE [outcome |-> first, executed |-> <<query>>]
    IN  attempted(session_execute(query, db))

-----------------------------------------------------------------------------
(* Specification of one call of _transform_concat_to_sqlite                *)

\* Inputs: a statement with a CONCAT call of up to MaxArguments arguments,
\* written with one of the names and one of the separators, followed by
\* the rest of the statement
MaxArguments == 3

PlainArguments == { "a", "b", "' '", "'x, y'", "\"p,q\"" }
NestedArguments == { "UPPER(a)", "')'" }

ConcatNames == { "CONCAT", "concat " }
ConcatSeparators == { ", ", " ," }

\* the rest of a statement as written and as it should read after the rewrite
ConcatRests ==
    { [written |-> " FROM staff", rewritten |-> " FROM staff"],
      [written |-> " AS n, CONCAT(city, ', ', zip) FROM staff WHERE LENGTH(city) > 1",
       rewritten |-> " AS n, (city || ', ' || zip) FROM staff WHERE LENGTH(city) > 1"] }

ConcatCalls ==
    [name : ConcatNames, separator : ConcatSeparators, rest : ConcatRests,
     arguments : UNION { [1..n -> PlainArguments \cup NestedArguments] :
                             n \in 1..MaxArguments }]

\* the statement text of a call
concat_statement(call) ==
    "SELECT " \o call.name \o "(" \o join(call.separator, call.arguments) \o ")"
        \o call.rest.written

ConcatInit ==
    /\ cc_call \in { Some(c) : c \in ConcatCalls }
    /\ cc_result = None
    /\ RouterIdle /\ RawIdle /\ ChatIdle /\ RequestsIdle /\ PresenterIdle

TransformConcat ==
    /\ cc_call # None /\ cc_result = None
    /\ cc_result' = Some(transform_concat_to_sqlite(concat_statement(cc_call[1])))
    /\ UNCHANGED <<cc_call, routerVars, rawVars, appVars, chatVars, requestVars,
                   presenterVars>>

ConcatNext == TransformConcat

SpecConcat == ConcatInit /\ [][ConcatNext]_vars

\* the statement in which the call is written as (x || y || ...)
Rewritten(call) ==
    "SELECT (" \o join(" || ", call.arguments) \o ")" \o call.rest.rewritten

PlainCall(call) == \A i \in DOMAIN call.arguments : call.arguments[i] \in PlainArguments

\* C23: every CONCAT call whose arguments are plain identifiers and quoted
\* literals (the literals free of parentheses) is rewritten into the
\* parenthesised form joined by ||, CONCAT(a, ' ', b) into (a || ' ' || b); a
\* comma inside a single- or double-quoted literal does not split the
\* argument, and the text outside the CONCAT calls is returned unchanged.
C23_PlainConcatRewritten ==
    (cc_result # None /\ PlainCall(cc_call[1])) =>
        cc_result[1] = Rewritten(cc_call[1])

\* CONCAT(a, ' ', 'x, y') and a second call further on, both rewritten
C23_Witness ==
    /\ cc_call # None
    /\ cc_call[1].arguments = <<"a", "' '", "'x, y'">>
    /\ cc_call[1].name = "CONCAT" /\ cc_call[1].separator = ", "
    /\ cc_result = Some("SELECT (a || ' ' || 'x, y') AS n, (city || ', ' || zip) FROM staff WHERE LENGTH(city) > 1")

\* C24 (as claimed): a CONCAT call with a parenthesised argument or a quoted
\* literal that contains a closing parenthesis is split on its top-level
\* commas only and rewritten into the balanced expression,
\* CONCAT(UPPER(a), b) into (UPPER(a) || b).
C24_NestedConcatRewritten ==
    (cc_result # None /\ ~PlainCall(cc_call[1])) =>
        cc_result[1] = Rewritten(cc_call[1])

-----------------------------------------------------------------------------
(* SQLAgentService.execute_raw_query and POST /query/sql                   *)

\* execute_raw_query(sql_query)
execute_raw_query(sql_query, db) ==
    LET returned(r) ==
            [result |->
                IF ~r.outcome.raised
                THEN [success |-> TRUE, data |-> Some(r.outcome.value),
                      row_count |-> Len(r.outcome.value), error |-> None]
                ELSE [success |-> FALSE, data |-> None, row_count |-> 0,
                      error |-> Some(r.outcome.error)],
             executed |-> r.executed]
    IN  returned(execute_query(sql_query, db))

dangerous_keywords == << "DROP", "DELETE", "TRUNCATE", "ALTER", "UPDATE", "INSERT" >>

HTTPException(status, detail) == [status |-> status, detail |-> detail]

\* faulty variant: the SELECT test is applied to the text as typed
is_select_case_sensitive(sql_query) == StartsWith(strip(sql_query), "SELECT")

\* sql_query.strip().upper().startswith("SELECT")
is_select(sql_query) == StartsWith(upper(strip(sql_query)), "SELECT")

\* faulty variant: the denylist is matched against the text as typed
has_dangerous_keyword_case_sensitive(sql_query) ==
    \E k \in 1..Len(dangerous_keywords) : Contains(dangerous_keywords[k], sql_query)

\* any(keyword in sql_query.upper() for keyword in dangerous_keywords)
has_dangerous_keyword(sql_query) ==
    \E k \in 1..Len(dangerous_keywords) :
        Contains(dangerous_keywords[k], upper(sql_query))

\* the handler of POST /query/sql: the response, the statements passed to
\* execute_raw_query and the statements the database executed
execute_sql_query(sql_agent_service, query, db) ==
    LET answered(r) ==
            [response |->
                IF ~r.result.success
                THEN HTTPException(400, r.result.error[1])
                ELSE [status |-> 200, body |-> r.result],
             passed |-> <<query[1]>>, executed |-> r.executed]
    IN  IF ~sql_agent_service
        THEN [response |-> HTTPException(503, "Database not available"),
              passed |-> <<>>, executed |-> <<>>]
        ELSE IF query = None \/ query = Some("")
        THEN [response |-> HTTPException(400, "Query parameter required"),
              passed |-> <<>>, executed |-> <<>>]
        ELSE IF has_dangerous_keyword(query[1])
        THEN [response |-> HTTPException(403,
                  "Dangerous SQL operations not allowed. Only SELECT queries permitted."),
              passed |-> <<>>, executed |-> <<>>]
        ELSE IF ~is_select(query[1])
        THEN [response |-> HTTPException(403,
                  "Only SELECT queries are allowed in this endpoint."),
              passed |-> <<>>, executed |-> <<>>]
        ELSE answered(execute_raw_query(query[1], db))

\* Inputs: a statement is a head, led by optional whitespace and followed by
\* up to MaxClauses further clauses
MaxClauses == 1

StatementLeads == { "", "  ", "\n" }

StatementHeads ==
    { "SELECT first_name FROM employees LIMIT 5",
      "select * from employees",
      "SELECT * FROM employees",
      "DROP TABLE employees",
      "SELECT updated_at FROM orders",
      "SELECT CONCAT(first_name, ' ', last_name) FROM staff",
      "select concat (first_name, last_name) from staff",
      "WITH t AS (SELECT 1) SELECT * FROM t",
      "" }

StatementClauses ==
    { "; DELETE FROM employees", "; drop table employees", " WHERE id = 1", " " }

RawStatements ==
    { lead \o head \o join("", tail) :
        lead \in StatementLeads, head \in StatementHeads,
        tail \in UNION { [1..n -> StatementClauses] : n \in 0..MaxClauses } }

RawInit ==
    /\ raw_sql_agent \in BOOLEAN
    /\ raw_query \in { Some(q) : q \in RawStatements } \cup { None }
    /\ raw_response = None
    /\ raw_executed = <<>>
    /\ raw_db_log = <<>>
    /\ raw_db = None
    /\ RouterIdle /\ ChatIdle /\ RequestsIdle /\ ConcatIdle /\ PresenterIdle

ExecuteSqlQuery ==
    /\ raw_response = None
    /\ \E db \in DbConditions :
       \E r \in { execute_sql_query(raw_sql_agent, raw_query, db) } :
        /\ raw_response' = Some(r.response)
        /\ raw_executed' = r.passed
        /\ raw_db_log' = r.executed
        /\ raw_db' = Some(db)
    /\ UNCHANGED <<raw_sql_agent, raw_query, routerVars,
                   appVars, chatVars, requestVars, concatVars, presenterVars>>

RawNext == ExecuteSqlQuery

SpecRawSql == RawInit /\ [][RawNext]_vars

\* C10: POST /query/sql passes the caller's statement to execute_raw_query if
\* and only if, letter case ignored, it contains none of DROP, DELETE,
\* TRUNCATE, ALTER, UPDATE, INSERT as a substring and, trimmed of whitespace,
\* begins with SELECT; every other statement is rejected with a 4xx response
\* and the database executes nothing. This is the behaviour of an application
\* that has its SQL agent service; one that has none answers 503 to every
\* statement and executes nothing.
RawAllowed(q) ==
    /\ \A k \in 1..Len(dangerous_keywords) :
           ~Contains(lower(dangerous_keywords[k]), lower(q))
    /\ StartsWith(lower(strip(q)), "select")

C10_RawSqlGate ==
    raw_response # None =>
        IF ~raw_sql_agent
        THEN /\ raw_executed = <<>> /\ raw_db_log = <<>>
             /\ raw_response[1].status = 503
        ELSE IF raw_query # None /\ RawAllowed(raw_query[1])
        THEN /\ raw_executed = <<raw_query[1]>>
             /\ raw_db_log # <<>> /\ raw_db_log[1] = raw_query[1]
        ELSE /\ raw_executed = <<>> /\ raw_db_log = <<>>
             /\ raw_response[1].status \in {400, 403}

\* the three statements the claim names, after the request was handled
C10_Examples ==
    (raw_response # None /\ raw_sql_agent) =>
        /\ raw_query = Some("DROP TABLE employees") => raw_executed = <<>>
        /\ raw_query = Some("SELECT * FROM employees; DELETE FROM employees")
               => raw_executed = <<>>
        /\ raw_query = Some("SELECT first_name FROM employees LIMIT 5")
               => raw_executed = <<"SELECT first_name FROM employees LIMIT 5">>

C10_RawSqlGateAndExamples == C10_RawSqlGate /\ C10_Examples

C10_Witness ==
    /\ raw_response # None /\ raw_sql_agent
    /\ raw_query = Some("\nselect * from employees ")
    /\ raw_executed = <<"\nselect * from employees ">>
    /\ raw_response[1].status = 200

\* C20: one call of execute_query makes the database execute at most two
\* statements, the original and then at most one retry, which is the CONCAT
\* rewrite of the original; when the retry fails as well its error reaches the
\* caller (here as the 400 response of POST /query/sql) and nothing further
\* is executed.
C20_AtMostOneRetry ==
    raw_response # None =>
        /\ Len(raw_db_log) <= 2
        /\ raw_db_log # <<>> => raw_db_log[1] = raw_query[1]
        /\ Len(raw_db_log) = 2 =>
            /\ session_execute(raw_db_log[1], raw_db[1]).raised
            /\ raw_db_log[2] = transform_concat_to_sqlite(raw_db_log[1])
            /\ session_execute(raw_db_log[2], raw_db[1]).raised =>
                raw_response[1] =
                    HTTPException(400, session_execute(raw_db_log[2], raw_db[1]).error)

\* the original failed for want of CONCAT, its rewrite failed on a locked database
C20_Witness ==
    /\ raw_response # None
    /\ Len(raw_db_log) = 2
    /\ raw_db_log[2] # raw_db_log[1]
    /\ session_execute(raw_db_log[1], raw_db[1]).error = NoSuchFunctionConcat
    /\ raw_response[1] = HTTPException(400, DatabaseLocked)

\* C21: execute_query retries with the CONCAT rewrite only when the first
\* execution failed with the unknown-function error that names CONCAT; every
\* other failure of the first execution, such as an unknown table in a
\* statement that uses CONCAT, reaches the caller without a second execution.
C21_RetryOnlyOnUnknownConcat ==
    (raw_response # None /\ Len(raw_db_log) = 2) =>
        Contains("NO SUCH FUNCTION: CONCAT",
                 upper(session_execute(raw_db_log[1], raw_db[1]).error))

-----------------------------------------------------------------------------
(* SessionManager                                                          *)

ensure_session(ss, session_id) ==
    IF session_id \in DOMAIN ss THEN ss
    ELSE [k \in DOMAIN ss \cup {session_id} |->
             IF k = session_id THEN <<>> ELSE ss[k]]

get_session(ss, session_id) ==
    IF session_id \in DOMAIN ss THEN Some(ss[session_id]) ELSE None

\* faulty variant: the message replaces the history
add_message_overwrites(ss, session_id, message) ==
    [ensure_session(ss, session_id) EXCEPT ![session_id] = <<message>>]

add_message(ss, session_id, message) ==
    [ensure_session(ss, session_id) EXCEPT ![session_id] = Append(@, message)]

-----------------------------------------------------------------------------
(* VectorStoreService.similarity_search                                    *)

\* what the embedding call and the index lookup can do
SearchOutcomes ==
    { Return(<<"Employees accrue 20 days of leave.", "Leave needs approval.">>),
      Return(<<>>),
      Raise("APIError", "embedding request failed") }

similarity_search(vector_store, found) ==
    IF ~vector_store
    THEN Raise("ValueError",
               "Vector store not initialized. Please ingest documents first.")
    ELSE found

-----------------------------------------------------------------------------
(* SQLAgentService.query_with_data                                         *)

Fence == Backtick \o Backtick \o Backtick

\* what get_completion can return for the SQL generation prompt
GenerationOutcomes ==
    { Return("SELECT COUNT(*) FROM employees"),
      Return(Fence \o "sql\nSELECT name FROM employees\n" \o Fence),
      Return("DELETE FROM employees"),
      Return(" SELECT CONCAT(first_name, ' ', last_name) FROM employees\n"),
      Raise("APIError", "completion request failed") }

\* what get_completion can return for the answer prompt
AnswerOutcomes ==
    { Return("There are 2 employees."),
      Raise("APIError", "answer request failed") }

\* the cleaning of the generated SQL
clean_sql(text) == strip(replace(strip(text), Fence \o Fence, ""))

\* the body of the try block: its outcome and the statements executed
query_with_data_try(generated, db, answered) ==
    LET executed(sql_query, r) ==
            IF r.outcome.raised
            THEN [outcome |-> r.outcome, executed |-> r.executed]
            ELSE IF answered.raised
            THEN [outcome |-> answered, executed |-> r.executed]
            ELSE [outcome |-> Return([success |-> TRUE,
                                      data |-> Some(r.outcome.value),
                                      answer |-> Some(answered.value),
                                      sql_query |-> Some(sql_query),
                                      error |-> None]),
                  executed |-> r.executed]
        cleaned(sql_query) == executed(sql_query, execute_query(sql_query, db))
    IN  IF generated.raised
        THEN [outcome |-> generated, executed |-> <<>>]
        ELSE cleaned(clean_sql(generated.value))

\* faulty variant: the answer synthesis is left outside the try block
query_with_data_answer_unguarded(generated, db, answered) ==
    LET handled(t) ==
            [outcome |->
                IF t.outcome.raised /\ t.outcome # answered
                THEN Return([success |-> FALSE, data |-> None, answer |-> None,
                             sql_query |-> None, error |-> Some(t.outcome.error)])
                ELSE t.outcome,
             executed |-> t.executed, tried |-> t.outcome]
    IN  handled(query_with_data_try(generated, db, answered))

\* query_with_data: try ... except Exception as e: return the failure dict.
\* tried records what the try block did.
query_with_data(generated, db, answered) ==
    LET handled(t) ==
            [outcome |->
                IF t.outcome.raised
                THEN Return([success |-> FALSE, data |-> None, answer |-> None,
                             sql_query |-> None, error |-> Some(t.outcome.error)])
                ELSE t.outcome,
             executed |-> t.executed, tried |-> t.outcome]
    IN  handled(query_with_data_try(generated, db, answered))

-----------------------------------------------------------------------------
(* VisualizationService.create_visualization                               *)

\* what choosing the chart parameters and drawing the chart can do
ChartOutcomes ==
    { Return([chart_type |-> "bar", image_base64 |-> "iVBORw0KGgo="]),
      Raise("ValueError", "could not convert string to float") }

create_visualization(data, drawn) ==
    IF data = <<>>
    THEN [success |-> FALSE, error |-> Some("No data provided"),
          image_base64 |-> None, chart_type |-> None, html |-> None]
    ELSE IF drawn.raised
    THEN [success |-> FALSE, error |-> Some(drawn.error),
          image_base64 |-> None, chart_type |-> None, html |-> None]
    ELSE [success |-> TRUE, error |-> None,
          image_base64 |-> Some(drawn.value.image_base64),
          chart_type |-> Some(drawn.value.chart_type), html |-> None]

-----------------------------------------------------------------------------
(* prepare_messages_async and POST /chat                                   *)

convert_from_azure_format(role, content) ==
    [role |-> role, content |-> <<[type |-> "text", text |-> content]>>]

\* the text items of a content array
RECURSIVE text_items(_)
text_items(content) ==
    IF content = <<>> THEN <<>>
    ELSE IF Head(content).type = "text"
    THEN <<Head(content).text>> \o text_items(Tail(content))
    ELSE text_items(Tail(content))

\* every stored message has a content array (it was built by
\* convert_from_azure_format), so the array branch is the one taken
convert_to_azure_format(messages) ==
    [i \in 1..Len(messages) |->
        [role |-> messages[i].role,
         content |-> join(" ", text_items(messages[i].content))]]

Failure(who, error) == [collaborator |-> who, error |-> error]

\* the assembly went through: the context text, sql_result,
\* visualization_data; sql_call and failures record the collaborator calls
Assembled(context_text, sql_result, visualization_data, sql_call, failures) ==
    [raised |-> FALSE, context_text |-> context_text, sql_result |-> sql_result,
     visualization_data |-> visualization_data, sql_call |-> sql_call,
     failures |-> failures]

\* an exception left the assembly
Escaped(exc, sql_call, failures) ==
    [raised |-> TRUE, kind |-> exc.kind, error |-> exc.error,
     sql_call |-> sql_call, failures |-> failures]

SearchFailure(search) == { Failure("document search", search.error) }

SqlFailure(sql) ==
    IF sql.tried.raised THEN { Failure("sql adapter", sql.tried.error) } ELSE {}

\* the fallback and the VECTOR_SEARCH branch
assemble_vector_search(search) ==
    IF search.raised THEN Escaped(search, None, SearchFailure(search))
    ELSE Assembled(join("\n\n", search.value), None, None, None, {})

\* faulty variant: a chart of the rows is attached to a DatabaseQuery
assemble_sql_query_attaches_chart(sql) ==
    LET returned(sql_result) ==
            Assembled(IF sql_result.success
                      THEN "Database Query Result:\n" \o str(sql_result.answer)
                      ELSE "Database query failed: " \o str(sql_result.error),
                      Some(sql_result),
                      IF sql_result.success /\ sql_result.data # Some(<<>>)
                      THEN Some([success |-> TRUE, error |-> None,
                                 image_base64 |-> Some("iVBORw0KGgo="),
                                 chart_type |-> Some("bar"), html |-> None])
                      ELSE None,
                      Some(sql), SqlFailure(sql))
    IN  IF sql.outcome.raised THEN Escaped(sql.outcome, Some(sql), SqlFailure(sql))
        ELSE returned(sql.outcome.value)

assemble_sql_query(sql) ==
    LET returned(sql_result) ==
            Assembled(IF sql_result.success
                      THEN "Database Query Result:\n" \o str(sql_result.answer)
                      ELSE "Database query failed: " \o str(sql_result.error),
                      Some(sql_result), None, Some(sql), SqlFailure(sql))
    IN  IF sql.outcome.raised THEN Escaped(sql.outcome, Some(sql), SqlFailure(sql))
        ELSE returned(sql.outcome.value)

\* faulty variant: the result of a failed chart generation is attached as well
assemble_visualization_attaches_failed_chart(sql, drawn) ==
    LET visualized(sql_result, viz_result) ==
            Assembled(IF viz_result.success
                      THEN "I've generated a " \o str(viz_result.chart_type)
                               \o " visualization based on your query.\n\nData summary: "
                               \o str(sql_result.answer)
                      ELSE "Data retrieved but visualization failed: "
                               \o str(viz_result.error) \o "\n\nData: "
                               \o str(sql_result.answer),
                      Some(sql_result), Some(viz_result), Some(sql),
                      IF viz_result.success THEN {}
                      ELSE { Failure("chart generation", str(viz_result.error)) })
        returned(sql_result) ==
            IF sql_result.success /\ sql_result.data # Some(<<>>)
            THEN visualized(sql_result,
                            create_visualization(sql_result.data[1], drawn))
            ELSE Assembled("Could not retrieve data for visualization: "
                               \o str(sql_result.error),
                           Some(sql_result), None, Some(sql), SqlFailure(sql))
    IN  IF sql.outcome.raised THEN Escaped(sql.outcome, Some(sql), SqlFailure(sql))
        ELSE returned(sql.outcome.value)

assemble_visualization(sql, drawn) ==
    LET visualized(sql_result, viz_result) ==
            IF viz_result.success
            THEN Assembled("I've generated a " \o str(viz_result.chart_type)
                               \o " visualization based on your query.\n\nData summary: "
                               \o str(sql_result.answer),
                           Some(sql_result), Some(viz_result), Some(sql), {})
            ELSE Assembled("Data retrieved but visualization failed: "
                               \o str(viz_result.error) \o "\n\nData: "
                               \o str(sql_result.answer),
                           Some(sql_result), None, Some(sql),
                           { Failure("chart generation", str(viz_result.error)) })
        returned(sql_result) ==
            IF sql_result.success /\ sql_result.data # Some(<<>>)
            THEN visualized(sql_result,
                            create_visualization(sql_result.data[1], drawn))
            ELSE Assembled("Could not retrieve data for visualization: "
                               \o str(sql_result.error),
                           Some(sql_result), None, Some(sql), SqlFailure(sql))
    IN  IF sql.outcome.raised THEN Escaped(sql.outcome, Some(sql), SqlFailure(sql))
        ELSE returned(sql.outcome.value)

assemble_hybrid(search, sql_agent_service, sql) ==
    LET combined(policy_context, sql_context, sql_result, sql_call, failures) ==
            Assembled("Policy Context:\n" \o policy_context
                          \o "\n\nDatabase Information:\n" \o sql_context,
                      sql_result, None, sql_call, failures)
        queried(policy_context, sql_result) ==
            combined(policy_context,
                     IF sql_result.success THEN str(sql_result.answer) ELSE "",
                     Some(sql_result), Some(sql), SqlFailure(sql))
        searched(policy_context) ==
            IF ~sql_agent_service
            THEN combined(policy_context, "", None, None, {})
            ELSE IF sql.outcome.raised
            THEN Escaped(sql.outcome, Some(sql), SqlFailure(sql))
            ELSE queried(policy_context, sql.outcome.value)
    IN  IF search.raised THEN Escaped(search, None, SearchFailure(search))
        ELSE searched(join("\n\n", search.value))

SystemPrompt ==
    "You are a helpful HR assistant. Use the following context to answer the user's question:\n\n"

\* faulty variant: the branches do not test that the SQL agent service is set
prepare_messages_async_ignores_missing_agent(session_history, user_message, routing_info, vector_store, sql_agent_service, env) ==
    LET query_type == routing_info.query_type
        returned(a) ==
            [assembly |-> a, query_type |-> query_type,
             needs_visualization |-> routing_info.needs_visualization,
             messages |->
                 IF a.raised THEN <<>>
                 ELSE (IF a.context_text # ""
                       THEN <<[role |-> "system",
                               content |-> SystemPrompt \o a.context_text]>>
                       ELSE <<>>)
                      \o convert_to_azure_format(session_history)
                      \o <<[role |-> "user", content |-> user_message]>>]
        assemble(search, sql) ==
            returned(IF query_type = VECTOR_SEARCH
                     THEN assemble_vector_search(search)
                     ELSE IF query_type = SQL_QUERY
                     THEN assemble_sql_query(sql)
                     ELSE IF query_type = VISUALIZATION
                     THEN assemble_visualization(sql, env.drawn)
                     ELSE IF query_type = HYBRID
                     THEN assemble_hybrid(search, sql_agent_service, sql)
                     ELSE assemble_vector_search(search))
    IN  assemble(similarity_search(vector_store, env.found),
                 query_with_data(env.generated, env.db, env.answered))

\* prepare_messages_async, after ensure_session, on the session's history.
\* routing_info is route_query(user_message, has_database=(database_service
\* is not None)); the action evaluates it once for the request.
prepare_messages_async(session_history, user_message, routing_info, vector_store, sql_agent_service, env) ==
    LET query_type == routing_info.query_type
        returned(a) ==
            [assembly |-> a, query_type |-> query_type,
             needs_visualization |-> routing_info.needs_visualization,
             messages |->
                 IF a.raised THEN <<>>
                 ELSE (IF a.context_text # ""
                       THEN <<[role |-> "system",
                               content |-> SystemPrompt \o a.context_text]>>
                       ELSE <<>>)
                      \o convert_to_azure_format(session_history)
                      \o <<[role |-> "user", content |-> user_message]>>]
        assemble(search, sql) ==
            returned(IF query_type = VECTOR_SEARCH
                     THEN assemble_vector_search(search)
                     ELSE IF query_type = SQL_QUERY /\ sql_agent_service
                     THEN assemble_sql_query(sql)
                     ELSE IF query_type = VISUALIZATION /\ sql_agent_service
                     THEN assemble_visualization(sql, env.drawn)
                     ELSE IF query_type = HYBRID
                     THEN assemble_hybrid(search, sql_agent_service, sql)
                     ELSE assemble_vector_search(search))
    IN  assemble(similarity_search(vector_store, env.found),
                 query_with_data(env.generated, env.db, env.answered))

\* what the final get_completion can do
CompletionOutcomes ==
    { Return("Here is what I found."),
      Raise("APIError", "completion request failed") }

\* the handler of POST /chat: the session store, what the assembly and the
\* completion call did, and the response
chat(ss, request, routing_info, vector_store, sql_agent_service, env, completed) ==
    LET assistant_message == convert_from_azure_format("assistant", completed.value)
        responded(ensured, prep) ==
            IF prep.assembly.raised
            THEN [sessions |-> ensured, prep |-> prep, completion |-> None,
                  response |-> HTTPException(500, prep.assembly.error)]
            ELSE IF completed.raised
            THEN [sessions |-> ensured, prep |-> prep, completion |-> Some(completed),
                  response |-> HTTPException(500, completed.error)]
            ELSE [sessions |->
                      add_message(
                          add_message(ensured, request.session_id,
                              convert_from_azure_format("user", request.message)),
                          request.session_id, assistant_message),
                  prep |-> prep, completion |-> Some(completed),
                  response |->
                      [status |-> 200,
                       session_id |-> request.session_id,
                       message |-> assistant_message,
                       query_type |-> prep.query_type,
                       visualization |->
                           IF prep.assembly.visualization_data # None
                           THEN Some([type |-> prep.assembly.visualization_data[1].chart_type,
                                      html |-> prep.assembly.visualization_data[1].html,
                                      image_base64 |->
                                          prep.assembly.visualization_data[1].image_base64])
                           ELSE None,
                       data |->
                           IF /\ prep.assembly.sql_result # None
                              /\ prep.assembly.sql_result[1].data # None
                              /\ prep.assembly.sql_result[1].data # Some(<<>>)
                           THEN prep.assembly.sql_result[1].data
                           ELSE None]]
        ensure(ensured) ==
            responded(ensured,
                      prepare_messages_async(ensured[request.session_id],
                          request.message, routing_info, vector_store,
                          sql_agent_service, env))
    IN  ensure(ensure_session(ss, request.session_id))

-----------------------------------------------------------------------------
(* Specification of one POST /chat request                                 *)

MaxPriorInteractions == 1

SessionIds == { "s1" }

ChatMessages ==
    { "What is the leave policy?",
      "How many employees are in Engineering?",
      "plot a bar chart of salaries by department",
      "policy on employees leaves",
      "hello",
      "" }

\* the history left by n earlier interactions
RECURSIVE PriorHistory(_)
PriorHistory(n) ==
    IF n = 0 THEN <<>>
    ELSE PriorHistory(n - 1)
            \o << convert_from_azure_format("user", "hello"),
                  convert_from_azure_format("assistant", "Hello, how can I help?") >>

InitialSessions ==
    { EmptyDict } \cup
    { [k \in SessionIds |-> PriorHistory(n)] : n \in 0..MaxPriorInteractions }

DefaultDb == [concat_function |-> FALSE, fault |-> "none", rows |-> <<>>]
DefaultAnswer == Return("There are 2 employees.")

\* What the collaborators do during one request. The outcome of a call that
\* cannot be made is fixed: no statement is executed when generation raised,
\* and no rows are summarised when the database is at fault.
Environments ==
    { e \in [found : SearchOutcomes, generated : GenerationOutcomes,
             db : DbConditions, answered : AnswerOutcomes,
             drawn : ChartOutcomes] :
        /\ e.generated.raised => e.db = DefaultDb /\ e.answered = DefaultAnswer
        /\ e.db.fault # "none" => e.answered = DefaultAnswer }

ChatInit ==
    /\ app_vector_store \in BOOLEAN
    /\ app_database \in BOOLEAN
    /\ app_sql_agent \in BOOLEAN
    /\ app_sql_agent => app_database
    /\ sessions \in InitialSessions
    /\ chat_request \in
           { Some([session_id |-> sid, message |-> m]) :
               sid \in SessionIds, m \in ChatMessages }
    /\ chat_prep = None /\ chat_completion = None /\ chat_response = None
    /\ RouterIdle /\ RawIdle /\ RequestsIdle /\ ConcatIdle /\ PresenterIdle

Chat ==
    /\ chat_request # None /\ chat_response = None
    /\ \E routing_info \in { route_query(chat_request[1].message, app_database) } :
       \E env \in Environments, completed \in CompletionOutcomes :
       \E r \in { chat(sessions, chat_request[1], routing_info, app_vector_store,
                       app_sql_agent, env, completed) } :
        /\ sessions' = r.sessions
        /\ chat_prep' = Some(r.prep)
        /\ chat_completion' = r.completion
        /\ chat_response' = Some(r.response)
    /\ UNCHANGED <<chat_request, appVars, routerVars,
                   rawVars, requestVars, concatVars, presenterVars>>

ChatNext == Chat

SpecChat == ChatInit /\ [][ChatNext]_vars

-----------------------------------------------------------------------------
(* Properties of context assembly and the SQL adapter                      *)

Handled == chat_response # None
Assembly == chat_prep[1].assembly

\* C6 (as claimed): no collaborator failure escapes the assembly: whenever
\* document search, the SQL adapter or chart generation failed, the assembly
\* still returned a context text, the composer was called, and unless the
\* completion itself failed the request was answered with 200.
C6_NoFailureEscapesAssembly ==
    (Handled /\ Assembly.failures # {}) =>
        /\ ~Assembly.raised
        /\ chat_completion # None
        /\ ~chat_completion[1].raised => chat_response[1].status = 200

\* C7 (as claimed): every collaborator failure of an assembly that returned
\* is visible in the context text: the text contains the error message.
C7_FailuresVisibleInContext ==
    (Handled /\ ~Assembly.raised) =>
        \A f \in Assembly.failures : Contains(f.error, Assembly.context_text)

\* C8: query_with_data never raises; when generation, execution (a failed
\* rewrite retry included) or answer synthesis failed it returns
\* success=False, data=None and the error, and for a DatabaseQuery the
\* context text is "Database query failed: " followed by that error and the
\* request goes on to the completion call.
C8_SqlFailureAbsorbed ==
    (Handled /\ Assembly.sql_call # None) =>
        LET sql == Assembly.sql_call[1] IN
        /\ ~sql.outcome.raised
        /\ sql.tried.raised =>
            /\ ~sql.outcome.value.success
            /\ sql.outcome.value.data = None
            /\ sql.outcome.value.error = Some(sql.tried.error)
            /\ chat_prep[1].query_type = SQL_QUERY =>
                /\ ~Assembly.raised
                /\ Assembly.context_text = "Database query failed: " \o sql.tried.error
                /\ Contains(sql.tried.error, chat_prep[1].messages[1].content)
                /\ chat_completion # None

\* a DatabaseQuery whose rewritten statement failed as well, answered 200
C8_Witness ==
    /\ Handled /\ Assembly.sql_call # None
    /\ chat_prep[1].query_type = SQL_QUERY
    /\ Assembly.sql_call[1].tried.raised
    /\ Len(Assembly.sql_call[1].executed) = 2
    /\ Assembly.sql_result[1].error = Some(DatabaseLocked)
    /\ chat_response[1].status = 200

\* C9 (as claimed): every statement the SQL adapter sends to the database
\* starts with SELECT.
C9_OnlySelectReachesDatabase ==
    (Handled /\ Assembly.sql_call # None) =>
        \A i \in 1..Len(Assembly.sql_call[1].executed) :
            StartsWith(upper(Assembly.sql_call[1].executed[i]), "SELECT")

\* C15 (as claimed): a request whose message is empty is answered with a 4xx
\* status before the router or any other collaborator is called: no assembly
\* was made and no completion was requested.
C15_EmptyMessageRejected ==
    (Handled /\ chat_request[1].message = "") =>
        /\ chat_response[1].status \in 400..499
        /\ chat_prep = None
        /\ chat_completion = None

\* C22 (as claimed): the statement query_with_data passes to execution after
\* cleaning the provider's response never begins with three backticks: a
\* fenced response is reduced to the bare statement.
C22_FenceStripped ==
    (Handled /\ Assembly.sql_call # None /\ Assembly.sql_call[1].executed # <<>>) =>
        ~StartsWith(Assembly.sql_call[1].executed[1], Fence)

\* C25: for a Visualization query that reaches the SQL adapter, when the
\* adapter fails, returns no rows, or the chart generation fails, the
\* assembly raises nothing, attaches no chart, and returns a plain-text
\* context that tells of the failure; create_visualization returns a result
\* for every input, with success=False and an error for empty data and for
\* a drawing that raised.
ChartFailed == \E f \in Assembly.failures : f.collaborator = "chart generation"

C25_VisualizationDegrades ==
    /\ (Handled /\ chat_prep[1].query_type = VISUALIZATION
               /\ Assembly.sql_call # None) =>
          LET sql_result == Assembly.sql_call[1].outcome.value IN
          (~sql_result.success \/ sql_result.data = Some(<<>>) \/ ChartFailed) =>
              /\ ~Assembly.raised
              /\ Assembly.visualization_data = None
              /\ chat_response[1].status = 200 => chat_response[1].visualization = None
              /\ IF ~sql_result.success
                 THEN Assembly.context_text =
                          "Could not retrieve data for visualization: "
                              \o sql_result.error[1]
                 ELSE IF sql_result.data = Some(<<>>)
                 THEN StartsWith(Assembly.context_text,
                                 "Could not retrieve data for visualization: ")
                 ELSE \E f \in Assembly.failures :
                          StartsWith(Assembly.context_text,
                              "Data retrieved but visualization failed: " \o f.error)
    /\ \A drawn \in ChartOutcomes :
          /\ create_visualization(<<>>, drawn).success = FALSE
          /\ create_visualization(<<>>, drawn).error = Some("No data provided")
          /\ drawn.raised =>
                /\ create_visualization(SampleRows, drawn).success = FALSE
                /\ create_visualization(SampleRows, drawn).error = Some(drawn.error)

\* rows were found, the chart could not be drawn, and the request was answered
C25_Witness ==
    /\ Handled /\ chat_prep[1].query_type = VISUALIZATION
    /\ Assembly.sql_call # None /\ ~Assembly.raised
    /\ Assembly.context_text =
           "Data retrieved but visualization failed: could not convert string to float\n\nData: There are 2 employees."
    /\ Assembly.visualization_data = None
    /\ chat_response[1].status = 200

RoutedType == route_query(chat_request[1].message, app_database).query_type

C28_NoAgentFallsBackToSearch ==
    (Handled /\ app_database /\ ~app_sql_agent
             /\ RoutedType \in {SQL_QUERY, VISUALIZATION}) =>
        /\ Assembly.sql_call = None
        /\ chat_prep[1].query_type = RoutedType
        /\ IF Assembly.raised
           THEN \A f \in Assembly.failures : f.collaborator = "document search"
           ELSE /\ \E found \in SearchOutcomes :
                     /\ ~found.raised
                     /\ Assembly.context_text = join("\n\n", found.value)
                /\ Assembly.sql_result = None
                /\ Assembly.visualization_data = None
                /\ chat_response[1].status = 200 =>
                     /\ chat_response[1].query_type = RoutedType
                     /\ chat_response[1].visualization = None
                     /\ chat_response[1].data = None

\* a request for a chart, answered from the policy passages
C28_Witness ==
    /\ Handled /\ app_database /\ ~app_sql_agent
    /\ chat_request[1].message = "plot a bar chart of salaries by department"
    /\ ~Assembly.raised
    /\ Assembly.context_text =
           "Employees accrue 20 days of leave.\n\nLeave needs approval."
    /\ chat_response[1].status = 200
    /\ chat_response[1].query_type = VISUALIZATION

-----------------------------------------------------------------------------
(* SessionManager.clear_session and delete_session                         *)

\* faulty variant: every session is emptied
clear_session_clears_all(ss, session_id) == [k \in DOMAIN ss |-> <<>>]

clear_session(ss, session_id) ==
    IF session_id \in DOMAIN ss THEN [ss EXCEPT ![session_id] = <<>>] ELSE ss

delete_session(ss, session_id) ==
    [k \in DOMAIN ss \ {session_id} |-> ss[k]]

-----------------------------------------------------------------------------
(* POST /chat and POST /chat/stream, step by step                          *)
(*                                                                         *)
(* The handlers are coroutines of one event loop and contain no await that *)
(* suspends, so one handler runs at a time from its first line to its      *)
(* return. generate() is a plain generator: the StreamingResponse resumes  *)
(* it in a worker thread, once per frame, so its resumptions run alongside *)
(* the handlers of other requests. A call of a SessionManager method is    *)
(* one step.                                                               *)

\* the state of a request that has not started
NewRequest(kind, session_id, message) ==
    [kind |-> kind, session_id |-> session_id, message |-> message,
     pc |-> "start",          \* where the request is
     started |-> None,        \* the history prepare_messages_async read
     prep |-> None,           \* what prepare_messages_async returned or raised
     completion |-> None,     \* what the completion provider did
     status |-> 0,            \* the HTTP status once the response has begun
     received |-> <<>>,       \* chunks the provider stream delivered
     full_response |-> "",    \* the text accumulated by generate()
     frames |-> <<>>,         \* frames generate() yielded
     appended |-> <<>>]       \* messages the request passed to add_message

Step(ss, request) == [sessions |-> ss, request |-> request]

\* chat / chat_stream: prep_result = await prepare_messages_async(...), and
\* the except clause that answers 500 when it raises
handler_prepare(ss, req, routing_info, vector_store, sql_agent_service, env) ==
    LET prepared(ensured, prep) ==
            Step(ensured,
                 [req EXCEPT
                    !.started = Some(ensured[req.session_id]),
                    !.prep = Some([raised |-> prep.assembly.raised,
                                   query_type |-> prep.query_type,
                                   visualization_data |->
                                       IF prep.assembly.raised THEN None
                                       ELSE prep.assembly.visualization_data]),
                    !.pc = IF prep.assembly.raised THEN "failed" ELSE "prepared",
                    !.status = IF prep.assembly.raised THEN 500 ELSE 0])
        ensure(ensured) ==
            prepared(ensured,
                     prepare_messages_async(ensured[req.session_id], req.message,
                         routing_info, vector_store, sql_agent_service, env))
    IN  ensure(ensure_session(ss, req.session_id))

\* chat: response_text = openai_service.get_completion(messages)
chat_get_completion(ss, req, completed) ==
    Step(ss, [req EXCEPT !.completion = Some(completed),
                         !.pc = IF completed.raised THEN "failed" ELSE "completed",
                         !.status = IF completed.raised THEN 500 ELSE 0])

\* chat / chat_stream: session_manager.add_message(session_id, user_message_new_format)
chat_add_user(ss, req) ==
    LET added(message) ==
            Step(add_message(ss, req.session_id, message),
                 [req EXCEPT !.appended = Append(@, message),
                             !.pc = IF req.kind = "chat" THEN "user_added"
                                    ELSE "g_start",
                             !.status = IF req.kind = "chat" THEN 0 ELSE 200])
    IN  added(convert_from_azure_format("user", req.message))

\* chat: session_manager.add_message(session_id, assistant_message_new_format)
\* and the response
chat_add_assistant(ss, req) ==
    LET added(message) ==
            Step(add_message(ss, req.session_id, message),
                 [req EXCEPT !.appended = Append(@, message),
                             !.pc = "done", !.status = 200])
    IN  added(convert_from_azure_format("assistant", req.completion[1].value))

visualization_frame(visualization_data) ==
    [type |-> "visualization",
     data |-> [chart_type |-> visualization_data.chart_type,
               html |-> visualization_data.html,
               image_base64 |-> visualization_data.image_base64]]

content_frame(chunk) == [type |-> "content", content |-> chunk]

complete_frame(query_type) == [type |-> "complete", query_type |-> query_type]

\* generate(): the visualization frame, yielded first when there is a chart
generate_first(ss, req) ==
    Step(ss, [req EXCEPT
                !.frames = Append(@, visualization_frame(req.prep[1].visualization_data[1])),
                !.pc = "g_viz"])

\* faulty variant: a chunk is put in front of the frames already yielded
generate_chunk_out_of_order(ss, req, chunk) ==
    Step(ss, [req EXCEPT !.received = Append(@, chunk),
                         !.full_response = @ \o chunk,
                         !.frames = <<content_frame(chunk)>> \o @,
                         !.pc = "g_content"])

\* generate(): the stream delivered a chunk
generate_chunk(ss, req, chunk) ==
    Step(ss, [req EXCEPT !.received = Append(@, chunk),
                         !.full_response = @ \o chunk,
                         !.frames = Append(@, content_frame(chunk)),
                         !.pc = "g_content"])

\* faulty variant: the assistant message is added once per frame of the reply
generate_end_adds_per_chunk(ss, req) ==
    LET added(message) ==
            Step(add_message(add_message(ss, req.session_id, message),
                             req.session_id, message),
                 [req EXCEPT !.appended = @ \o <<message, message>>,
                             !.completion = Some(Return(req.full_response)),
                             !.frames = Append(@, complete_frame(req.prep[1].query_type)),
                             !.pc = "g_complete"])
    IN  added(convert_from_azure_format("assistant", req.full_response))

\* generate(): the stream ended; the assistant message is added and the
\* completion marker yielded
generate_end(ss, req) ==
    LET added(message) ==
            Step(add_message(ss, req.session_id, message),
                 [req EXCEPT !.appended = Append(@, message),
                             !.completion = Some(Return(req.full_response)),
                             !.frames = Append(@, complete_frame(req.prep[1].query_type)),
                             !.pc = "g_complete"])
    IN  added(convert_from_azure_format("assistant", req.full_response))

\* faulty variant: the text received so far is stored when the stream breaks
generate_raise_stores_partial(ss, req, exc) ==
    LET added(message) ==
            Step(add_message(ss, req.session_id, message),
                 [req EXCEPT !.appended = Append(@, message),
                             !.completion = Some(exc), !.pc = "g_failed"])
    IN  added(convert_from_azure_format("assistant", req.full_response))

\* generate(): stream_completion raised; the exception leaves the generator
\* after the response has begun
generate_raise(ss, req, exc) ==
    Step(ss, [req EXCEPT !.completion = Some(exc), !.pc = "g_failed"])

\* generate() was resumed and asked the provider stream for its next item
generate_resume(ss, req, provided) ==
    IF provided.next = "chunk" THEN generate_chunk(ss, req, provided.chunk)
    ELSE IF provided.next = "stop" THEN generate_end(ss, req)
    ELSE generate_raise(ss, req, provided.exc)

\* clear_session / delete_session handlers
handle_clear(ss, req) ==
    Step(clear_session(ss, req.session_id), [req EXCEPT !.pc = "done", !.status = 200])

handle_delete(ss, req) ==
    Step(delete_session(ss, req.session_id), [req EXCEPT !.pc = "done", !.status = 200])

-----------------------------------------------------------------------------
(* Specification of two concurrent requests                                *)

MaxChunks == 2

RequestIds == { "r1", "r2" }

StoreSessionIds == { "s1", "s2" }

RequestKinds == { "chat", "stream", "clear", "delete" }

\* r1 is a chat on s1 that asks for a chart; r2 is any request on s1 or s2
InitialRequests ==
    { [r \in RequestIds |->
          IF r = "r1"
          THEN NewRequest(k1, "s1", "plot a bar chart of salaries by department")
          ELSE NewRequest(k2, s2, "policy on employees leaves")] :
        k1 \in {"chat", "stream"}, k2 \in RequestKinds, s2 \in StoreSessionIds }

StoredSessions ==
    { EmptyDict } \cup
    { [k \in S |-> PriorHistory(n)] :
        S \in { {"s1"}, {"s1", "s2"} }, n \in 0..MaxPriorInteractions }

\* collaborator behaviours exercised here: all succeed, the chart fails,
\* document search fails
SessionEnvironments ==
    { [found |-> Return(<<"Employees accrue 20 days of leave.", "Leave needs approval.">>),
       generated |-> Return("SELECT COUNT(*) FROM employees"),
       db |-> [concat_function |-> FALSE, fault |-> "none", rows |-> SampleRows],
       answered |-> DefaultAnswer,
       drawn |-> Return([chart_type |-> "bar", image_base64 |-> "iVBORw0KGgo="])],
      [found |-> Return(<<"Employees accrue 20 days of leave.", "Leave needs approval.">>),
       generated |-> Return("SELECT COUNT(*) FROM employees"),
       db |-> [concat_function |-> FALSE, fault |-> "none", rows |-> SampleRows],
       answered |-> DefaultAnswer,
       drawn |-> Raise("ValueError", "could not convert string to float")],
      [found |-> Raise("APIError", "embedding request failed"),
       generated |-> Return("SELECT COUNT(*) FROM employees"),
       db |-> [concat_function |-> FALSE, fault |-> "none", rows |-> SampleRows],
       answered |-> DefaultAnswer,
       drawn |-> Return([chart_type |-> "bar", image_base64 |-> "iVBORw0KGgo="])] }

\* the n-th chunk of a reply
chunk_text(n) == "tok" \o ToString(n)

\* what stream_completion can do when asked for the next chunk
ProviderNext(req) ==
    { [next |-> "stop"],
      [next |-> "raise", exc |-> Raise("APIError", "stream interrupted")] }
    \cup (IF Len(req.received) < MaxChunks
          THEN { [next |-> "chunk", chunk |-> chunk_text(Len(req.received) + 1)] }
          ELSE {})

chatRequestVars == <<chat_request, chat_prep, chat_completion, chat_response>>

SessionsInit ==
    /\ app_vector_store \in BOOLEAN
    /\ app_database = TRUE /\ app_sql_agent = TRUE
    /\ sessions \in StoredSessions
    /\ requests \in InitialRequests
    /\ event_loop = None
    /\ chat_request = None /\ chat_prep = None
    /\ chat_completion = None /\ chat_response = None
    /\ RouterIdle /\ RawIdle /\ ConcatIdle /\ PresenterIdle

\* the step s of request r; the handler keeps or leaves the event loop
Took(r, s, loop) ==
    /\ sessions' = s.sessions
    /\ requests' = [requests EXCEPT ![r] = s.request]
    /\ event_loop' = loop
    /\ UNCHANGED <<routerVars, rawVars, appVars, chatRequestVars, concatVars, presenterVars>>

HandlerPrepare(r) ==
    /\ requests[r].kind \in {"chat", "stream"} /\ requests[r].pc = "start"
    /\ event_loop = None
    /\ \E routing_info \in { route_query(requests[r].message, app_database) } :
       \E env \in SessionEnvironments :
       \E s \in { handler_prepare(sessions, requests[r], routing_info,
                                  app_vector_store, app_sql_agent, env) } :
           Took(r, s, IF s.request.pc = "failed" THEN None ELSE Some(r))

ChatGetCompletion(r) ==
    /\ requests[r].kind = "chat" /\ requests[r].pc = "prepared"
    /\ event_loop = Some(r)
    /\ \E completed \in CompletionOutcomes :
       \E s \in { chat_get_completion(sessions, requests[r], completed) } :
           Took(r, s, IF completed.raised THEN None ELSE Some(r))

ChatAddUser(r) ==
    /\ \/ requests[r].kind = "chat" /\ requests[r].pc = "completed"
       \/ requests[r].kind = "stream" /\ requests[r].pc = "prepared"
    /\ event_loop = Some(r)
    /\ \E s \in { chat_add_user(sessions, requests[r]) } :
           Took(r, s, IF requests[r].kind = "chat" THEN Some(r) ELSE None)

ChatAddAssistant(r) ==
    /\ requests[r].kind = "chat" /\ requests[r].pc = "user_added"
    /\ event_loop = Some(r)
    /\ \E s \in { chat_add_assistant(sessions, requests[r]) } : Took(r, s, None)

\* the first resumption of generate() when there is a chart
GenerateFirst(r) ==
    /\ requests[r].pc = "g_start"
    /\ requests[r].prep[1].visualization_data # None
    /\ \E s \in { generate_first(sessions, requests[r]) } : Took(r, s, event_loop)

\* a resumption of generate() that reaches the for loop
GenerateResume(r) ==
    /\ \/ requests[r].pc \in {"g_viz", "g_content"}
       \/ /\ requests[r].pc = "g_start"
          /\ requests[r].prep[1].visualization_data = None
    /\ \E provided \in ProviderNext(requests[r]) :
       \E s \in { generate_resume(sessions, requests[r], provided) } :
           Took(r, s, event_loop)

\* the resumption after the completion marker: generate() returns
GenerateReturn(r) ==
    /\ requests[r].pc = "g_complete"
    /\ Took(r, Step(sessions, [requests[r] EXCEPT !.pc = "g_done"]), event_loop)

\* the client goes away while generate() is suspended: it is not resumed again
Disconnect(r) ==
    /\ requests[r].pc \in {"g_start", "g_viz", "g_content"}
    /\ Took(r, Step(sessions, [requests[r] EXCEPT !.pc = "g_cancelled"]), event_loop)

ClearSession(r) ==
    /\ requests[r].kind = "clear" /\ requests[r].pc = "start"
    /\ event_loop = None
    /\ \E s \in { handle_clear(sessions, requests[r]) } : Took(r, s, None)

DeleteSession(r) ==
    /\ requests[r].kind = "delete" /\ requests[r].pc = "start"
    /\ event_loop = None
    /\ \E s \in { handle_delete(sessions, requests[r]) } : Took(r, s, None)

SessionsNext ==
    \E r \in RequestIds :
        \/ HandlerPrepare(r)
        \/ ChatGetCompletion(r)
        \/ ChatAddUser(r)
        \/ ChatAddAssistant(r)
        \/ GenerateFirst(r)
        \/ GenerateResume(r)
        \/ GenerateReturn(r)
        \/ Disconnect(r)
        \/ ClearSession(r)
        \/ DeleteSession(r)

SpecSessions == SessionsInit /\ [][SessionsNext]_vars

-----------------------------------------------------------------------------
(* Properties of the session history under concurrent requests             *)

UserTurn(r) == convert_from_azure_format("user", requests[r].message)

\* the request returned its reply (/chat) or yielded its complete frame (/chat/stream)
Completed(r) ==
    \/ requests[r].kind = "chat" /\ requests[r].pc = "done"
    \/ requests[r].kind = "stream" /\ requests[r].pc \in {"g_complete", "g_done"}

\* the reply of a completed request: the completion text, the chunks joined
Reply(r) ==
    IF requests[r].kind = "chat" THEN requests[r].completion[1].value
    ELSE join("", requests[r].received)

\* no other request has taken a step
Alone(r) == \A q \in RequestIds \ {r} : requests[q].pc = "start"

\* C11: a chat interaction that completed has appended exactly two messages
\* to its session's history, the user's message and then the assistant's
\* reply; when no other request acted, the history is the one it found
\* followed by these two.
C11_TwoTurnsPerInteraction ==
    \A r \in RequestIds :
        Completed(r) =>
            /\ requests[r].appended =
                   << UserTurn(r), convert_from_azure_format("assistant", Reply(r)) >>
            /\ Alone(r) =>
                   get_session(sessions, requests[r].session_id) =
                       Some(requests[r].started[1] \o requests[r].appended)

\* a stream of two chunks completed on a session that had a history
C11_Witness ==
    /\ requests["r1"].kind = "stream" /\ requests["r1"].pc = "g_done"
    /\ Len(requests["r1"].received) = 2
    /\ Alone("r1")
    /\ Len(sessions["s1"]) = 4

\* C12 (as claimed): in the history of a session, the user turn of a completed
\* request is immediately followed by the assistant turn of the same request.
C12_TurnsNotInterleaved ==
    \A r \in RequestIds :
        (Completed(r) /\ requests[r].session_id \in DOMAIN sessions) =>
            LET h == sessions[requests[r].session_id] IN
            \A i \in 1..Len(h) :
                h[i] = requests[r].appended[1] =>
                    i < Len(h) /\ h[i + 1] = requests[r].appended[2]

\* C13 (as claimed): while a /chat/stream response is being sent and its
\* provider stream is not drained, the request has added nothing to the
\* history: with no other request acting, the stored history is the one the
\* request found.
C13_HistoryUntouchedWhileStreaming ==
    \A r \in RequestIds :
        (requests[r].kind = "stream" /\ requests[r].pc \in {"g_start", "g_viz", "g_content"}) =>
            /\ requests[r].appended = <<>>
            /\ Alone(r) =>
                   get_session(sessions, requests[r].session_id) = requests[r].started

AssistantTurns(r) ==
    { i \in 1..Len(requests[r].appended) : requests[r].appended[i].role = "assistant" }

\* C14: a request has added an assistant turn only if its completion call
\* returned (/chat) or its provider stream was drained to the end
\* (/chat/stream), and the turn holds the whole reply; a stream that failed
\* or was cancelled midway has added no assistant turn.
C14_AssistantTurnOnlyAfterSuccess ==
    \A r \in RequestIds :
        /\ AssistantTurns(r) # {} =>
            /\ requests[r].kind = "chat" =>
                   /\ requests[r].completion # None
                   /\ ~requests[r].completion[1].raised
            /\ requests[r].kind = "stream" =>
                   requests[r].pc \in {"g_complete", "g_done"}
            /\ \A i \in AssistantTurns(r) :
                   requests[r].appended[i] =
                       convert_from_azure_format("assistant", Reply(r))
        /\ requests[r].pc \in {"g_failed", "g_cancelled", "failed"} =>
               AssistantTurns(r) = {}

\* a stream that broke after its first chunk: only the user turn was added
C14_Witness ==
    /\ requests["r1"].pc = "g_failed"
    /\ requests["r1"].full_response = "tok1"
    /\ requests["r1"].appended = << UserTurn("r1") >>

\* C16 (as claimed): a request whose completion-provider call failed has the
\* status 500.
C16_ProviderFailureIs500 ==
    \A r \in RequestIds :
        (requests[r].completion # None /\ requests[r].completion[1].raised) =>
            requests[r].status = 500

ContentFrames(chunks) == [i \in 1..Len(chunks) |-> content_frame(chunks[i])]

\* C17: the frames of a /chat/stream response that ran to completion are the
\* visualization frame if and only if a chart was computed, then one content
\* frame per chunk of the provider in arrival order, then one complete frame.
C17_FrameSequence ==
    \A r \in RequestIds :
        (requests[r].kind = "stream" /\ requests[r].pc \in {"g_complete", "g_done"}) =>
            requests[r].frames =
                (IF requests[r].prep[1].visualization_data # None
                 THEN << visualization_frame(requests[r].prep[1].visualization_data[1]) >>
                 ELSE <<>>)
                \o ContentFrames(requests[r].received)
                \o << complete_frame(requests[r].prep[1].query_type) >>

\* a completed stream with a chart and two chunks
C17_Witness ==
    /\ requests["r1"].kind = "stream" /\ requests["r1"].pc = "g_done"
    /\ Len(requests["r1"].frames) = 4
    /\ requests["r1"].frames[1].type = "visualization"
    /\ requests["r1"].frames[4].type = "complete"

\* C18: a step of a request on one session leaves the history of every other
\* session as it was.
C18_OtherSessionsUntouched ==
    [][ \A r \in RequestIds, sid \in StoreSessionIds :
            (requests'[r] # requests[r] /\ sid # requests[r].session_id) =>
                get_session(sessions', sid) = get_session(sessions, sid) ]_vars

\* s2 was cleared by r2 while s1 holds the two turns that r1 added
C18_Witness ==
    /\ requests["r2"].kind = "clear" /\ requests["r2"].session_id = "s2"
    /\ requests["r2"].pc = "done" /\ Completed("r1")
    /\ get_session(sessions, "s2") = Some(<<>>)
    /\ get_session(sessions, "s1") =
           Some(requests["r1"].started[1] \o requests["r1"].appended)
    /\ requests["r1"].started[1] # <<>>

SampleTurns(role) ==
    { convert_from_azure_format(role, text) :
        text \in {"", "policy on employees leaves", "Here is what I found."} }

\* C19: for every stored history h, adding a user turn and then an assistant
\* turn and reading the session gives h followed by the two turns in order.
C19_AppendThenRead ==
    \A sid \in DOMAIN sessions :
        \A u \in SampleTurns("user"), a \in SampleTurns("assistant") :
            get_session(add_message(add_message(sessions, sid, u), sid, a), sid)
                = Some(sessions[sid] \o <<u, a>>)

\* /chat added its two turns to a history that was not empty
C19_Witness ==
    /\ requests["r1"].kind = "chat" /\ requests["r1"].pc = "done"
    /\ Alone("r1")
    /\ requests["r1"].started[1] # <<>>
    /\ get_session(sessions, "s1") =
           Some(requests["r1"].started[1]
                \o << UserTurn("r1"),
                      convert_from_azure_format("assistant", "Here is what I found.") >>)

\* C27 (as claimed): when no request is in flight, every stored history has
\* even length and alternates user, assistant, user, assistant from a user
\* turn on, whatever /chat, /chat/stream (failed and cancelled streams
\* included), clear_session and delete_session requests came before.
Quiescent ==
    \A r \in RequestIds :
        requests[r].pc \in {"start", "done", "failed", "g_done", "g_failed", "g_cancelled"}

Alternates(history) ==
    /\ Len(history) % 2 = 0
    /\ \A i \in 1..Len(history) :
          history[i].role = IF i % 2 = 1 THEN "user" ELSE "assistant"

C27_HistoriesAlternate ==
    (requests # EmptyDict /\ Quiescent) =>
        \A sid \in DOMAIN sessions : Alternates(sessions[sid])

-----------------------------------------------------------------------------
(* AI_Presenter: the session files and the handlers that read and write    *)
(* them. The handlers are coroutines on one event loop: the code between   *)
(* two awaits runs without interruption, and other handlers run while a    *)
(* handler awaits the model.                                               *)

\* read_session(session_id)
read_session(files, session_id) ==
    IF session_id \notin DOMAIN files
    THEN Raise("HTTPException", HTTPException(404, "Session not found"))
    ELSE Return(files[session_id])

\* write_session(session_id, data): the file is created or overwritten
write_session(files, session_id, data) ==
    [k \in DOMAIN files \cup {session_id} |->
        IF k = session_id THEN data ELSE files[k]]

\* os.remove(session_file)
remove_session_file(files, session_id) ==
    [k \in DOMAIN files \ {session_id} |-> files[k]]

\* the session_data written by upload_and_initiate and by the handlers
\* (pp_path and llm_model, which no handler changes, are left out)
SessionData(convo_history, current_slide, total_slides) ==
    [convo_history |-> convo_history, current_slide |-> current_slide,
     total_slides |-> total_slides]

Entry(human, ai) == [human |-> human, ai |-> ai]

\* the state of a request that has not started
NewPresenterRequest(kind, session_id, slide_number, question) ==
    [kind |-> kind, session_id |-> session_id, slide_number |-> slide_number,
     question |-> question,
     pc |-> "start",          \* "start", "awaiting" the model, "done"
     session_data |-> None,   \* the handler's local session_data
     response |-> None]       \* the response, None before

PresenterStep(files, dirs, request) ==
    [files |-> files, dirs |-> dirs, request |-> request]

Answered(req, response) == [req EXCEPT !.pc = "done", !.response = Some(response)]

\* an exception no handler catches: the server answers 500
InternalServerError == HTTPException(500, "Internal Server Error")

\* explain_slide_endpoint up to `await explain_slide(...)`
explain_slide_read(files, req) ==
    LET read(r) ==
            IF r.raised THEN Answered(req, r.error)
            ELSE IF \/ req.slide_number < 1
                    \/ req.slide_number > r.value.total_slides
            THEN Answered(req, HTTPException(400, "Invalid slide number"))
            ELSE [req EXCEPT !.pc = "awaiting", !.session_data = Some(r.value)]
    IN  read(read_session(files, req.session_id))

\* explain_slide_endpoint from the return of explain_slide on
explain_slide_write(files, dirs, req, explained) ==
    LET written(session_data) ==
            PresenterStep(write_session(files, req.session_id, session_data), dirs,
                Answered([req EXCEPT !.session_data = Some(session_data)],
                         [status |-> 200, slide_number |-> req.slide_number,
                          explanation |-> explained.value]))
    IN  IF explained.raised
        THEN PresenterStep(files, dirs, Answered(req, InternalServerError))
        ELSE written([req.session_data[1] EXCEPT
                        !.convo_history =
                            Append(@, Entry("Explain slide " \o ToString(req.slide_number),
                                            explained.value)),
                        !.current_slide = req.slide_number])

\* ask_question up to `await chat(...)`
ask_question_read(files, req) ==
    LET read(r) ==
            IF r.raised THEN Answered(req, r.error)
            ELSE [req EXCEPT !.pc = "awaiting", !.session_data = Some(r.value)]
    IN  read(read_session(files, req.session_id))

\* helper_function.chat after conversation.predict returned: the response and
\* the history with the new entry
presenter_chat(user_input, convo_history, predicted) ==
    [response |-> predicted,
     updated_history |-> Append(convo_history, Entry(user_input, predicted))]

\* ask_question from the return of conversation.predict on
ask_question_write(files, dirs, req, predicted) ==
    LET written(session_data, answer) ==
            PresenterStep(write_session(files, req.session_id, session_data), dirs,
                Answered([req EXCEPT !.session_data = Some(session_data)],
                         [status |-> 200, answer |-> answer]))
        chatted(c) ==
            written([req.session_data[1] EXCEPT !.convo_history = c.updated_history],
                    c.response)
    IN  IF predicted.raised
        THEN PresenterStep(files, dirs, Answered(req, InternalServerError))
        ELSE chatted(presenter_chat(req.question,
                                    req.session_data[1].convo_history,
                                    predicted.value))

\* str(e) of an HTTPException
str_http_exception(e) == ToString(e.status) \o ": " \o e.detail

\* stop_presentation: the whole body is one try block whose except clause
\* catches Exception, the HTTPException raised for a missing file included
stop_presentation(files, dirs, req) ==
    LET tried ==
            IF req.session_id \notin DOMAIN files
            THEN Raise("HTTPException", HTTPException(404, "Session not found"))
            ELSE Return([status |-> 200,
                         message |-> "Presentation session " \o req.session_id
                             \o " stopped and resources cleaned up successfully"])
    IN  IF tried.raised
        THEN PresenterStep(files, dirs,
                 Answered(req, HTTPException(500, "Error stopping presentation: "
                                                 \o str_http_exception(tried.error))))
        ELSE PresenterStep(remove_session_file(files, req.session_id),
                           dirs \ {req.session_id},
                           Answered(req, tried.value))

\* get_current_slide
get_current_slide(files, req) ==
    LET read(r) ==
            IF r.raised THEN Answered(req, r.error)
            ELSE Answered(req, [status |-> 200,
                                current_slide |-> r.value.current_slide])
    IN  read(read_session(files, req.session_id))

-----------------------------------------------------------------------------
(* Specification of two AI_Presenter requests                              *)

MaxStoredEntries == 1
MaxSlides == 2

PresenterRequestIds == { "q1", "q2" }
PresentationIds == { "p1", "p2" }

\* what the model call can do
ModelOutcomes ==
    { Return("This slide introduces prompt engineering."),
      Raise("APIError", "model request failed") }

\* a history of n entries
RECURSIVE StoredHistory(_)
StoredHistory(n) ==
    IF n = 0 THEN <<>>
    ELSE Append(StoredHistory(n - 1), Entry("Explain slide 1", "Welcome."))

\* the session files left by earlier uploads and requests
StoredPresentations ==
    { EmptyDict } \cup
    { [k \in S |-> SessionData(StoredHistory(n), 1, total)] :
        S \in { {"p1"}, {"p1", "p2"} }, n \in 0..MaxStoredEntries,
        total \in 1..MaxSlides }

\* q1 explains a slide of p1 or asks about it; q2 is any request
InitialPresenterRequests ==
    { [q \in PresenterRequestIds |-> IF q = "q1" THEN first ELSE second] :
        first \in { NewPresenterRequest("explain", "p1", 1, ""),
                    NewPresenterRequest("ask", "p1", 0, "What is a prompt?") },
        second \in
            { NewPresenterRequest("explain", p, n, "") :
                p \in PresentationIds, n \in 0..(MaxSlides + 1) }
            \cup { NewPresenterRequest("ask", p, 0, "Why does it matter?") :
                     p \in PresentationIds }
            \cup { NewPresenterRequest(k, p, 0, "") :
                     k \in {"stop", "current_slide"}, p \in PresentationIds } }

PresenterInit ==
    /\ session_files \in StoredPresentations
    /\ presentation_dirs = DOMAIN session_files
    /\ presenter_requests \in InitialPresenterRequests
    /\ RouterIdle /\ RawIdle /\ ChatIdle /\ RequestsIdle /\ ConcatIdle

PresenterTook(q, req) ==
    /\ presenter_requests' = [presenter_requests EXCEPT ![q] = req]
    /\ UNCHANGED <<routerVars, rawVars, appVars, chatVars, requestVars, concatVars>>

ExplainSlideRead(q) ==
    /\ presenter_requests[q].kind = "explain" /\ presenter_requests[q].pc = "start"
    /\ PresenterTook(q, explain_slide_read(session_files, presenter_requests[q]))
    /\ UNCHANGED <<session_files, presentation_dirs>>

ExplainSlideWrite(q) ==
    /\ presenter_requests[q].kind = "explain" /\ presenter_requests[q].pc = "awaiting"
    /\ \E explained \in ModelOutcomes :
       \E s \in { explain_slide_write(session_files, presentation_dirs,
                                      presenter_requests[q], explained) } :
        /\ session_files' = s.files
        /\ presentation_dirs' = s.dirs
        /\ PresenterTook(q, s.request)

AskQuestionRead(q) ==
    /\ presenter_requests[q].kind = "ask" /\ presenter_requests[q].pc = "start"
    /\ PresenterTook(q, ask_question_read(session_files, presenter_requests[q]))
    /\ UNCHANGED <<session_files, presentation_dirs>>

AskQuestionWrite(q) ==
    /\ presenter_requests[q].kind = "ask" /\ presenter_requests[q].pc = "awaiting"
    /\ \E predicted \in ModelOutcomes :
       \E s \in { ask_question_write(session_files, presentation_dirs,
                                     presenter_requests[q], predicted) } :
        /\ session_files' = s.files
        /\ presentation_dirs' = s.dirs
        /\ PresenterTook(q, s.request)

StopPresentation(q) ==
    /\ presenter_requests[q].kind = "stop" /\ presenter_requests[q].pc = "start"
    /\ \E s \in { stop_presentation(session_files, presentation_dirs,
                                    presenter_requests[q]) } :
        /\ session_files' = s.files
        /\ presentation_dirs' = s.dirs
        /\ PresenterTook(q, s.request)

GetCurrentSlide(q) ==
    /\ presenter_requests[q].kind = "current_slide"
    /\ presenter_requests[q].pc = "start"
    /\ PresenterTook(q, get_current_slide(session_files, presenter_requests[q]))
    /\ UNCHANGED <<session_files, presentation_dirs>>

PresenterNext ==
    \E q \in PresenterRequestIds :
        \/ ExplainSlideRead(q)
        \/ ExplainSlideWrite(q)
        \/ AskQuestionRead(q)
        \/ AskQuestionWrite(q)
        \/ StopPresentation(q)
        \/ GetCurrentSlide(q)

SpecPresenter == PresenterInit /\ [][PresenterNext]_vars

\* the request q completes with 200 in this step
Completes(q) ==
    /\ presenter_requests[q].pc = "awaiting"
    /\ presenter_requests'[q].pc = "done"
    /\ presenter_requests'[q].response[1].status = 200

\* C29 (as claimed): an explain_slide or ask_question request that completes
\* on a stored session adds exactly one entry to the stored convo_history of
\* that session and loses none: the stored history after its write is the
\* stored history before it with one entry more, also when another request
\* on the session wrote while this one awaited the model.
C29_EveryCompletionAddsOneEntry ==
    [][\A q \in PresenterRequestIds :
          (Completes(q) /\ presenter_requests[q].session_id \in DOMAIN session_files) =>
              LET sid == presenter_requests[q].session_id IN
              /\ Len(session_files'[sid].convo_history) =
                     Len(session_files[sid].convo_history) + 1
              /\ SubSeq(session_files'[sid].convo_history, 1,
                        Len(session_files[sid].convo_history)) =
                     session_files[sid].convo_history]_vars

\* the request q is a stop_presentation that is handled in this step
Stops(q) ==
    /\ presenter_requests[q].kind = "stop"
    /\ presenter_requests[q].pc = "start"
    /\ presenter_requests'[q].pc = "done"

\* C30 (as claimed): stop_presentation for an id without a session file
\* answers 404 "Session not found" and deletes nothing; for an id with a
\* session file it removes the file and the presentation directory, and
\* read_session for the id then answers 404.
C30_StopPresentation ==
    [][\A q \in PresenterRequestIds :
          Stops(q) =>
              LET sid == presenter_requests[q].session_id IN
              IF sid \notin DOMAIN session_files
              THEN /\ presenter_requests'[q].response =
                          Some(HTTPException(404, "Session not found"))
                   /\ session_files' = session_files
                   /\ presentation_dirs' = presentation_dirs
              ELSE /\ sid \notin DOMAIN session_files'
                   /\ sid \notin presentation_dirs'
                   /\ read_session(session_files', sid) =
                          Raise("HTTPException",
                                HTTPException(404, "Session not found"))]_vars

====
